---- MODULE Spec2Model ----
(***************************************************************************)
(* A model of internal/operator/operator.go of jsctl: the version catalog  *)
(* (Versions), the installer renderer (ApplyOperatorYAML), the             *)
(* Installation manifest builder (ApplyInstallationYAML) and the status    *)
(* reader (InstallationClient.Status).                                     *)
(*                                                                         *)
(* Strings that are parsed (version strings, file names without their      *)
(* ".yaml" suffix) are records [v, nums, pre]: whether the string starts   *)
(* with "v", its dot-separated numbers, and its "-" suffix ("" for none).  *)
(* [v |-> TRUE, nums |-> <<1, 10>>, pre |-> ""] is "v1.10".                *)
(* Optional (pointer) fields are Nil (<<>>) or Some(x) (<<x>>).            *)
(* Errors are the chain of wrapped messages, outermost first; <<>> is nil. *)
(***************************************************************************)
EXTENDS Integers, Sequences, FiniteSets, TLC

VARIABLES
    installers,   \* the embedded installers directory: a set of entries
    cluster,      \* what the cluster answers to the GET of the Installation
    pc,           \* "idle" between calls, "returned" after a call
    call,         \* the operation that ran last ("" for none)
    options,      \* the options it was called with
    ret,          \* what it returned: [err, value]
    applied,      \* the streams handed to applier.Apply during the call
    mf,           \* the manifests under construction (step-wise builder)
    done,         \* the builder steps that have run on mf
    issuersFirst  \* history: issuer expansion ran before pull-secret collection

vars == <<installers, cluster, pc, call, options, ret, applied, mf, done, issuersFirst>>

----------------------------------------------------------------------------
(* Bounds of the model *)

MaxFiles == 2
MaxIssuers == 2
MaxConditions == 2

----------------------------------------------------------------------------
(* Generic helpers *)

Nil == <<>>
Some(x) == <<x>>
NoError == <<>>

Last(s) == s[Len(s)]

SeqsUpTo(S, n) == UNION {[1..k -> S] : k \in 0..n}

\* all the ways to order the elements of a finite set
Orderings(S) ==
    {f \in [1..Cardinality(S) -> S] : \A i, j \in 1..Cardinality(S) : f[i] = f[j] => i = j}

----------------------------------------------------------------------------
(* Strings that get parsed, and github.com/Masterminds/semver *)

Str(v, nums, pre) == [v |-> v, nums |-> nums, pre |-> pre]
EmptyString == Str(FALSE, <<>>, "")

\* semver.NewVersion: an optional "v", one to three numbers, an optional
\* prerelease; anything else is ErrInvalidSemVer. Missing numbers are 0.
SemverValid(s) == Len(s.nums) \in 1..3

NewVersion(s) ==
    [major |-> s.nums[1],
     minor |-> IF Len(s.nums) >= 2 THEN s.nums[2] ELSE 0,
     patch |-> IF Len(s.nums) >= 3 THEN s.nums[3] ELSE 0,
     pre   |-> s.pre]

\* (*Version).String: always three numbers, never a "v"
VersionString(p) == Str(FALSE, <<p.major, p.minor, p.patch>>, p.pre)

\* "v" + s, for an s that does not start with "v"
PrependV(s) == [s EXCEPT !.v = TRUE]

\* the versions compared as strings: "10" sorts before "2"
Digits(n) == IF n < 10 THEN <<n>> ELSE <<n \div 10, n % 10>>

DigitsLess(a, b) ==
    \/ a[1] < b[1]
    \/ a[1] = b[1] /\ Len(a) < Len(b)
    \/ a[1] = b[1] /\ Len(a) = 2 /\ Len(b) = 2 /\ a[2] < b[2]

VersionLessAsStrings(a, b) ==
    \/ DigitsLess(Digits(a.major), Digits(b.major))
    \/ a.major = b.major /\ DigitsLess(Digits(a.minor), Digits(b.minor))
    \/ a.major = b.major /\ a.minor = b.minor /\ DigitsLess(Digits(a.patch), Digits(b.patch))
    \/ a.major = b.major /\ a.minor = b.minor /\ a.patch = b.patch
         /\ a.pre # "" /\ b.pre = ""

\* (*Version).LessThan: numeric per component; a prerelease precedes the
\* release of the same numbers
VersionLess(a, b) ==
    \/ a.major < b.major
    \/ a.major = b.major /\ a.minor < b.minor
    \/ a.major = b.major /\ a.minor = b.minor /\ a.patch < b.patch
    \/ a.major = b.major /\ a.minor = b.minor /\ a.patch = b.patch
         /\ a.pre # "" /\ b.pre = ""

\* sort.Sort / sort.Slice are not stable: any ordering of s that is
\* ascending under less is a possible outcome. less[i][j] is the sort's
\* Less(i, j) on the indexes of s.
SortOutcomes(s, less) ==
    {[i \in 1..Len(s) |-> s[p[i]]] : p \in
        {q \in Orderings(1..Len(s)) :
            \A i, j \in 1..Len(s) : i < j => ~less[q[j]][q[i]]}}

----------------------------------------------------------------------------
(* Errors *)

ErrNoManifest == <<"no manifest">>
ErrNoKeyFile == <<"no key file">>
ErrNoInstallation == <<"no installation">>
ErrInvalidSemVer == <<"Invalid Semantic Version">>
ErrNotExist == <<"file does not exist">>

\* fmt.Errorf("msg: %w", err)
Wrap(msg, err) == <<msg>> \o err

----------------------------------------------------------------------------
(* The embedded installers (go:embed installers/*.yaml) *)

\* pieces of a byte stream
Text(t) == [kind |-> "text", text |-> t]
RegistryAction == [kind |-> "action", field |-> "ImageRegistry"]
UnclosedAction == [kind |-> "unclosed"]
DocumentMarker == [kind |-> "marker"]

Entry(name, isDir, content) == [name |-> name, isDir |-> isDir, content |-> content]

OperatorTemplate(tag) == <<Text(tag), RegistryAction, Text("/js-operator")>>

\* the entries the embedded directory is drawn from: well-formed names, names
\* semver accepts but renders differently, a name semver rejects, a template
\* text/template rejects, and a directory
EmbeddableEntries ==
    {Entry(Str(TRUE, <<1, 2, 0>>, ""), FALSE, OperatorTemplate("a")),
     Entry(Str(TRUE, <<1, 10, 0>>, ""), FALSE, OperatorTemplate("b")),
     Entry(Str(FALSE, <<1, 2, 0>>, ""), FALSE, OperatorTemplate("c")),
     Entry(Str(TRUE, <<1, 10>>, ""), FALSE, OperatorTemplate("d")),
     Entry(Str(TRUE, <<1, 10, 0>>, "alpha"), FALSE, <<Text("e"), UnclosedAction>>),
     Entry(Str(FALSE, <<1, 2, 3, 4>>, ""), FALSE, OperatorTemplate("f")),
     Entry(Str(TRUE, <<2, 0, 0>>, ""), TRUE, <<>>)}

\* the embed pattern matches at least one regular file
InstallerSets ==
    {S \in SUBSET EmbeddableEntries :
        /\ Cardinality(S) \in 1..MaxFiles
        /\ \E e \in S : ~e.isDir}

\* the names of a released build
ReleasedInstallers ==
    {e \in EmbeddableEntries : e.name \in {Str(TRUE, <<1, 2, 0>>, ""), Str(TRUE, <<1, 10, 0>>, "")}}

\* installers.ReadDir("installers"): the entries in some order (the order does
\* not survive the sort in Versions)
ReadDir(fsys) == CHOOSE s \in Orderings(fsys) : TRUE

\* installers.Open(filepath.Join("installers", name + ".yaml"))
Open(fsys, name) ==
    IF \E e \in fsys : e.name = name
    THEN [err |-> NoError, file |-> Some(CHOOSE e \in fsys : e.name = name)]
    ELSE [err |-> Wrap("open", ErrNotExist), file |-> Nil]

\* io.Copy(buf, file): reading a directory fails
Copy(file) ==
    IF file.isDir
    THEN [err |-> <<"is a directory">>, bytes |-> <<>>]
    ELSE [err |-> NoError, bytes |-> file.content]

----------------------------------------------------------------------------
(* Versions, latestManifest, manifestVersion *)

RECURSIVE SelectFiles(_)
SelectFiles(entries) ==
    IF entries = <<>> THEN <<>>
    ELSE IF Head(entries).isDir THEN SelectFiles(Tail(entries))
    ELSE <<Head(entries).name>> \o SelectFiles(Tail(entries))

\* the possible results of Versions(): [err, value]
Versions(fsys) ==
    LET rawVersions == SelectFiles(ReadDir(fsys))
    IN  IF \E i \in 1..Len(rawVersions) : ~SemverValid(rawVersions[i])
        THEN {[err |-> ErrInvalidSemVer, value |-> <<>>]}
        ELSE LET parsedVersions == [i \in 1..Len(rawVersions) |-> NewVersion(rawVersions[i])]
             IN  {[err |-> NoError,
                   value |-> [i \in 1..Len(sorted) |-> PrependV(VersionString(sorted[i]))]] :
                    sorted \in SortOutcomes(parsedVersions,
                        [i \in 1..Len(parsedVersions) |-> [j \in 1..Len(parsedVersions) |->
                            VersionLess(parsedVersions[i], parsedVersions[j])]])}

\* the possible results of latestManifest(): [err, file]
latestManifest(fsys) ==
    {IF versions.err # NoError
     THEN [err |-> versions.err, file |-> Nil]
     ELSE Open(fsys, Last(versions.value)) : versions \in Versions(fsys)}

manifestVersion(fsys, version) ==
    LET opened == Open(fsys, version)
    IN  IF opened.err # NoError /\ Last(opened.err) = Last(ErrNotExist)
        THEN [err |-> ErrNoManifest, file |-> Nil]
        ELSE opened

----------------------------------------------------------------------------
(* The key files on disk, and ImagePullSecret *)

\* os.Open and ioutil.ReadAll of each path the model uses
KeyFiles ==
    [p \in {"", "/keys/key.json", "/keys/absent.json", "/keys/denied.json", "/keys"} |->
        CASE p = "/keys/key.json" -> [open |-> NoError, read |-> NoError, data |-> "ABC123"]
          [] p = "/keys/denied.json" -> [open |-> <<"permission denied">>, read |-> NoError, data |-> ""]
          [] p = "/keys" -> [open |-> NoError, read |-> <<"is a directory">>, data |-> ""]
          [] OTHER -> [open |-> ErrNotExist, read |-> NoError, data |-> ""]]

Paths == DOMAIN KeyFiles

Base64(bytes) == [base64 |-> bytes]

ImagePullSecret(keyFileLocation) ==
    LET file == KeyFiles[keyFileLocation]
        username == "_json_key"
        config == [auths |-> [host \in {"eu.gcr.io"} |->
                      [username |-> username,
                       password |-> file.data,
                       email    |-> "auth@jetstack.io",
                       auth     |-> Base64(<<username, ":", file.data>>)]]]
    IN  IF file.open = ErrNotExist THEN [err |-> ErrNoKeyFile, secret |-> Nil]
        ELSE IF file.open # NoError THEN [err |-> file.open, secret |-> Nil]
        ELSE IF file.read # NoError
             THEN [err |-> Wrap("failed to read key file", file.read), secret |-> Nil]
        ELSE [err |-> NoError,
              secret |-> Some([apiVersion |-> "v1",
                               kind       |-> "Secret",
                               name       |-> "jse-gcr-creds",
                               namespace  |-> "jetstack-secure",
                               type       |-> "kubernetes.io/dockerconfigjson",
                               data       |-> [key \in {".dockerconfigjson"} |-> config]])]

\* yaml.Marshal of a Secret: one YAML document
MarshalSecret(secret) == [kind |-> "yaml", doc |-> secret]

----------------------------------------------------------------------------
(* text/template *)

\* template.New("install").Parse
TemplateParse(bytes) ==
    IF \E i \in 1..Len(bytes) : bytes[i].kind = "unclosed"
    THEN [err |-> <<"template: install: unclosed action">>, tpl |-> <<>>]
    ELSE [err |-> NoError, tpl |-> bytes]

\* tpl.Execute(output, data)
TemplateExecute(tpl, data) ==
    [i \in 1..Len(tpl) |->
        IF tpl[i].kind = "action" THEN Text(data[tpl[i].field]) ELSE tpl[i]]

----------------------------------------------------------------------------
(* ApplyOperatorYAML *)

Registries == {"", "eu.gcr.io/custom"}

\* the versions a caller may ask for: none, every embeddable name, every
\* string Versions() can return, and one that is never embedded
RequestableVersions ==
    {EmptyString, Str(TRUE, <<9, 9, 9>>, "")}
        \cup {e.name : e \in EmbeddableEntries}
        \cup {PrependV(VersionString(NewVersion(e.name))) :
                e \in {x \in EmbeddableEntries : SemverValid(x.name)}}

OperatorOptions ==
    [Version : RequestableVersions, ImageRegistry : Registries, CredentialsLocation : Paths]

\* everything ApplyOperatorYAML does before applier.Apply, given the manifest
\* lookup's result: [err, output]
RenderInstaller(manifest, opts) ==
    IF manifest.err # NoError THEN [err |-> manifest.err, output |-> <<>>]
    ELSE
    LET copied == Copy(manifest.file[1]) IN
    IF copied.err # NoError THEN [err |-> copied.err, output |-> <<>>]
    ELSE
    LET pull == ImagePullSecret(opts.CredentialsLocation) IN
    IF pull.err # NoError THEN [err |-> pull.err, output |-> <<>>]
    ELSE
    LET buf == copied.bytes \o <<DocumentMarker>> \o <<MarshalSecret(pull.secret[1])>>
        parsed == TemplateParse(buf)
    IN  IF parsed.err # NoError THEN [err |-> parsed.err, output |-> <<>>]
        ELSE [err |-> NoError,
              output |-> TemplateExecute(parsed.tpl, [ImageRegistry |-> opts.ImageRegistry])]

\* the possible results of the manifest lookup and rendering
OperatorYAML(fsys, opts) ==
    {RenderInstaller(manifest, opts) :
        manifest \in IF opts.Version = EmptyString
                     THEN latestManifest(fsys)
                     ELSE {manifestVersion(fsys, opts.Version)}}

\* what applier.Apply may answer
ApplierErrors == {NoError, <<"apply failed">>}

NoOptions == [none |-> TRUE]
NoManifests == [installation |-> Nil, secrets |-> <<>>]

BuilderIdle == /\ mf = NoManifests /\ done = {} /\ issuersFirst = FALSE

ApplyOperatorYAML ==
    /\ pc = "idle"
    /\ \E opts \in OperatorOptions :
         /\ \E rendered \in OperatorYAML(installers, opts) :
              IF rendered.err # NoError
              THEN /\ ret' = [err |-> rendered.err, value |-> <<>>]
                   /\ applied' = <<>>
              ELSE \E applyErr \in ApplierErrors :
                   /\ applied' = <<rendered.output>>
                   /\ ret' = [err |-> applyErr, value |-> <<>>]
         /\ options' = opts
    /\ pc' = "returned"
    /\ call' = "ApplyOperatorYAML"
    /\ UNCHANGED <<installers, cluster, mf, done, issuersFirst>>

CallVersions ==
    /\ pc = "idle"
    /\ ret' \in Versions(installers)
    /\ pc' = "returned"
    /\ call' = "Versions"
    /\ options' = NoOptions
    /\ applied' = <<>>
    /\ UNCHANGED <<installers, cluster, mf, done, issuersFirst>>

\* the call is over; nothing of it is kept
Return ==
    /\ pc = "returned"
    /\ pc' = "idle"
    /\ call' = ""
    /\ options' = NoOptions
    /\ ret' = [err |-> NoError, value |-> <<>>]
    /\ applied' = <<>>
    /\ UNCHANGED <<installers, cluster, mf, done, issuersFirst>>

NoCluster == [err |-> "not found", conditions |-> <<>>]

InitIdle ==
    /\ pc = "idle"
    /\ call = ""
    /\ options = NoOptions
    /\ ret = [err |-> NoError, value |-> <<>>]
    /\ applied = <<>>
    /\ BuilderIdle

InitInstallers ==
    /\ installers \in InstallerSets
    /\ cluster = NoCluster
    /\ InitIdle

NextInstallers ==
    \/ ApplyOperatorYAML
    \/ CallVersions
    \/ Return

SpecInstallers == InitInstallers /\ [][NextInstallers]_vars

----------------------------------------------------------------------------
(* The Installation manifest and its options *)

\* the replica counts a caller may ask for
Replicas == {1, 3}

\* venafi.VenafiIssuer templates: two that expand and one that does not
IssuerTemplates ==
    {[name |-> "tpp", secretName |-> "tpp-credentials", valid |-> TRUE],
     [name |-> "tlspk", secretName |-> "tlspk-credentials", valid |-> TRUE],
     [name |-> "broken", secretName |-> "", valid |-> FALSE]}

\* venafi.GenerateOperatorManifestsForIssuer: an issuer fragment and its
\* secret, or an error
GenerateOperatorManifestsForIssuer(issuerTemplate) ==
    IF issuerTemplate.valid
    THEN [err |-> NoError,
          issuer |-> [name |-> issuerTemplate.name, secretName |-> issuerTemplate.secretName],
          secret |-> [apiVersion |-> "v1", kind |-> "Secret",
                      name |-> issuerTemplate.secretName, namespace |-> "jetstack-secure"]]
    ELSE [err |-> <<"invalid issuer template">>, issuer |-> Nil, secret |-> Nil]

InstallationOptions ==
    [InstallCSIDriver         : BOOLEAN,
     InstallSpiffeCSIDriver   : BOOLEAN,
     InstallIstioCSR          : BOOLEAN,
     InstallVenafiOauthHelper : BOOLEAN,
     VenafiIssuers            : SeqsUpTo(IssuerTemplates, MaxIssuers),
     IstioCSRIssuer           : {"", "ca-issuer"},
     ImageRegistry            : Registries,
     Credentials              : Paths,
     CertManagerReplicas      : Replicas,
     CertManagerVersion       : {"", "v1.8.0"},
     IstioCSRReplicas         : Replicas,
     SpiffeCSIDriverReplicas  : Replicas]

\* lines 275-299: the skeleton the steps start from
NewManifests(opts) ==
    [installation |->
        Some([apiVersion |-> "operator.jetstack.io/v1alpha1",
              kind |-> "Installation",
              name |-> "installation",
              spec |-> [Registry |-> opts.ImageRegistry,
                        CertManager |-> Some([Controller |-> Some([ReplicaCount |-> opts.CertManagerReplicas]),
                                              Webhook |-> Some([ReplicaCount |-> opts.CertManagerReplicas]),
                                              Version |-> ""]),
                        ApproverPolicy |-> Some([enabled |-> TRUE]),
                        CSIDrivers |-> Nil,
                        IstioCSR |-> Nil,
                        VenafiOauthHelper |-> Nil,
                        Issuers |-> <<>>]]),
     secrets |-> <<>>]

\* each step answers [err, mf]
Ok(m) == [err |-> NoError, mf |-> m]

applyCertManagerVersion(m, opts) ==
    IF opts.CertManagerVersion = "" THEN Ok(m)
    ELSE Ok([m EXCEPT !.installation[1].spec.CertManager[1].Version = opts.CertManagerVersion])

\* the field is assigned whether or not a driver is asked for
applyCSIDriversAlways(m, opts) ==
    LET drivers ==
            [CertManager |-> IF opts.InstallCSIDriver THEN Some([enabled |-> TRUE]) ELSE Nil,
             CertManagerSpiffe |->
                IF opts.InstallSpiffeCSIDriver
                THEN Some([ReplicaCount |-> opts.SpiffeCSIDriverReplicas])
                ELSE Nil]
    IN  Ok([m EXCEPT !.installation[1].spec.CSIDrivers = Some(drivers)])


applyCSIDriversToInstallation(m, opts) ==
    LET assign == opts.InstallCSIDriver \/ opts.InstallSpiffeCSIDriver
        drivers ==
            [CertManager |-> IF opts.InstallCSIDriver THEN Some([enabled |-> TRUE]) ELSE Nil,
             CertManagerSpiffe |->
                IF opts.InstallSpiffeCSIDriver
                THEN Some([ReplicaCount |-> opts.SpiffeCSIDriverReplicas])
                ELSE Nil]
    IN  IF assign
        THEN Ok([m EXCEPT !.installation[1].spec.CSIDrivers = Some(drivers)])
        ELSE Ok(m)

\* the issuer reference is attached whether or not an issuer is named
applyIstioCSRAlwaysReferencing(m, opts) ==
    IF ~opts.InstallIstioCSR THEN Ok(m)
    ELSE Ok([m EXCEPT !.installation[1].spec.IstioCSR =
                Some([ReplicaCount |-> opts.IstioCSRReplicas,
                      IssuerRef |-> Some([Name |-> opts.IstioCSRIssuer,
                                          Kind |-> "Issuer",
                                          Group |-> "cert-manager.io"])])])


applyIstioCSRToInstallation(m, opts) ==
    IF ~opts.InstallIstioCSR THEN Ok(m)
    ELSE Ok([m EXCEPT !.installation[1].spec.IstioCSR =
                Some([ReplicaCount |-> opts.IstioCSRReplicas,
                      IssuerRef |->
                        IF opts.IstioCSRIssuer = "" THEN Nil
                        ELSE Some([Name |-> opts.IstioCSRIssuer,
                                   Kind |-> "Issuer",
                                   Group |-> "cert-manager.io"])])])

\* the pull secret is referred to whether or not credentials are supplied
applyVenafiOauthHelperAlwaysReferencing(m, opts) ==
    IF ~opts.InstallVenafiOauthHelper THEN Ok(m)
    ELSE Ok([m EXCEPT !.installation[1].spec.VenafiOauthHelper =
                Some([ImagePullSecrets |-> <<"jse-gcr-creds">>])])

\* the pull secret is referred to only once it has been collected
applyVenafiOauthHelperIfCollected(m, opts) ==
    IF ~opts.InstallVenafiOauthHelper THEN Ok(m)
    ELSE Ok([m EXCEPT !.installation[1].spec.VenafiOauthHelper =
                Some([ImagePullSecrets |->
                        IF m.secrets # <<>> THEN <<"jse-gcr-creds">> ELSE <<>>])])


applyVenafiOauthHelperToInstallation(m, opts) ==
    IF ~opts.InstallVenafiOauthHelper THEN Ok(m)
    ELSE Ok([m EXCEPT !.installation[1].spec.VenafiOauthHelper =
                Some([ImagePullSecrets |->
                        IF opts.Credentials # "" THEN <<"jse-gcr-creds">> ELSE <<>>])])

\* the pull secret's error is dropped and the build goes on
collectImagePullSecretIgnoringError(m, opts) ==
    IF opts.Credentials = "" THEN Ok(m)
    ELSE LET pull == ImagePullSecret(opts.Credentials)
         IN  IF pull.err # NoError THEN Ok(m)
             ELSE Ok([m EXCEPT !.secrets = Append(@, pull.secret[1])])

\* lines 311-317
collectImagePullSecret(m, opts) ==
    IF opts.Credentials = "" THEN Ok(m)
    ELSE LET pull == ImagePullSecret(opts.Credentials)
         IN  IF pull.err # NoError
             THEN [err |-> Wrap("failed to parse image pull secret", pull.err), mf |-> m]
             ELSE Ok([m EXCEPT !.secrets = Append(@, pull.secret[1])])

RECURSIVE expandIssuers(_, _)
expandIssuers(m, templates) ==
    IF templates = <<>> THEN Ok(m)
    ELSE LET g == GenerateOperatorManifestsForIssuer(Head(templates))
         IN  IF g.err # NoError
             THEN [err |-> Wrap("error generating manifests for Venafi issuer", g.err), mf |-> m]
             ELSE expandIssuers(
                    [m EXCEPT !.secrets = Append(@, g.secret),
                              !.installation[1].spec.Issuers = Append(@, g.issuer)],
                    Tail(templates))

generateVenafiIssuerManifests(m, opts) == expandIssuers(m, opts.VenafiIssuers)

\* yaml.Marshal of a struct: a nil pointer field is left out, a set one is
\* written as what it points to
OmitNil(rec, pointers) ==
    [f \in {g \in DOMAIN rec : g \notin pointers \/ rec[g] # Nil} |->
        IF f \in pointers THEN rec[f][1] ELSE rec[f]]

MarshalInstallation(inst) ==
    LET spec == inst.spec
        csi == IF spec.CSIDrivers = Nil THEN Nil
               ELSE Some(OmitNil(spec.CSIDrivers[1], {"CertManager", "CertManagerSpiffe"}))
        istio == IF spec.IstioCSR = Nil THEN Nil
                 ELSE Some(OmitNil(spec.IstioCSR[1], {"IssuerRef"}))
        cm == Some(OmitNil(spec.CertManager[1], {"Controller", "Webhook"}))
    IN  [kind |-> "yaml",
         doc |-> [inst EXCEPT !.spec =
                    OmitNil([spec EXCEPT !.CSIDrivers = csi, !.IstioCSR = istio, !.CertManager = cm],
                            {"CertManager", "ApproverPolicy", "CSIDrivers", "IstioCSR",
                             "VenafiOauthHelper"})]]

RECURSIVE writeSecrets(_)
writeSecrets(secrets) ==
    IF secrets = <<>> THEN <<>>
    ELSE <<DocumentMarker, MarshalSecret(Head(secrets))>> \o writeSecrets(Tail(secrets))

marshalManifests(m) ==
    <<MarshalInstallation(m.installation[1])>> \o writeSecrets(m.secrets)

\* the issuers are expanded before the pull secret is collected
BuildStepsIssuersFirst == <<"istio-csr", "cert-manager-version", "csi-drivers", "oauth-helper",
                            "issuers", "pull-secret">>

\* the builder's steps, in the order ApplyInstallationYAML runs them
BuildSteps == <<"istio-csr", "cert-manager-version", "csi-drivers", "oauth-helper",
                "pull-secret", "issuers">>

RunStep(step, m, opts) ==
    CASE step = "istio-csr" ->
            LET r == applyIstioCSRToInstallation(m, opts)
            IN  IF r.err # NoError
                THEN [err |-> Wrap("failed to configure istio csr", r.err), mf |-> r.mf]
                ELSE r
      [] step = "cert-manager-version" -> applyCertManagerVersion(m, opts)
      [] step = "csi-drivers" -> applyCSIDriversToInstallation(m, opts)
      [] step = "oauth-helper" -> Ok(applyVenafiOauthHelperToInstallation(m, opts).mf)
      [] step = "pull-secret" -> collectImagePullSecret(m, opts)
      [] step = "issuers" ->
            LET r == generateVenafiIssuerManifests(m, opts)
            IN  IF r.err # NoError
                THEN [err |-> Wrap("error building manifests for Venafi issuers", r.err), mf |-> r.mf]
                ELSE r

\* run the steps of a sequence in turn, stopping at the first error
RECURSIVE RunSteps(_, _, _)
RunSteps(steps, m, opts) ==
    IF steps = <<>> THEN Ok(m)
    ELSE LET r == RunStep(Head(steps), m, opts)
         IN  IF r.err # NoError THEN r ELSE RunSteps(Tail(steps), r.mf, opts)

\* everything ApplyInstallationYAML does before applier.Apply: [err, output]
InstallationYAML(opts) ==
    LET built == RunSteps(BuildSteps, NewManifests(opts), opts)
    IN  IF built.err # NoError THEN [err |-> built.err, output |-> <<>>]
        ELSE [err |-> NoError, output |-> marshalManifests(built.mf)]

ApplyInstallationYAML ==
    /\ pc = "idle"
    /\ \E opts \in InstallationOptions :
         /\ LET rendered == InstallationYAML(opts)
            IN  IF rendered.err # NoError
                THEN /\ ret' = [err |-> rendered.err, value |-> <<>>]
                     /\ applied' = <<>>
                ELSE \E applyErr \in ApplierErrors :
                     /\ applied' = <<rendered.output>>
                     /\ ret' = [err |-> applyErr, value |-> <<>>]
         /\ options' = opts
    /\ pc' = "returned"
    /\ call' = "ApplyInstallationYAML"
    /\ UNCHANGED <<installers, cluster, mf, done, issuersFirst>>

InitInstallation ==
    /\ installers = ReleasedInstallers
    /\ cluster = NoCluster
    /\ InitIdle

NextInstallation ==
    \/ ApplyInstallationYAML
    \/ Return

SpecInstallation == InitInstallation /\ [][NextInstallation]_vars

----------------------------------------------------------------------------
(* InstallationClient.Status *)

\* two condition types given the same friendly name
componentNamesClashing ==
    [t \in {"CertManagerReady", "CertManagerIssuersReady", "CSIDriversReady", "IstioCSRReady",
            "ApproverPolicyReady", "VenafiOauthHelperReady", "ManifestsReady"} |->
        CASE t = "CertManagerReady" -> "cert-manager"
          [] t = "CertManagerIssuersReady" -> "cert-manager"
          [] t = "CSIDriversReady" -> "csi-driver"
          [] t = "IstioCSRReady" -> "istio-csr"
          [] t = "ApproverPolicyReady" -> "approver-policy"
          [] t = "VenafiOauthHelperReady" -> "venafi-oauth-helper"
          [] t = "ManifestsReady" -> "manifests"]


componentNames ==
    [t \in {"CertManagerReady", "CertManagerIssuersReady", "CSIDriversReady", "IstioCSRReady",
            "ApproverPolicyReady", "VenafiOauthHelperReady", "ManifestsReady"} |->
        CASE t = "CertManagerReady" -> "cert-manager"
          [] t = "CertManagerIssuersReady" -> "issuers"
          [] t = "CSIDriversReady" -> "csi-driver"
          [] t = "IstioCSRReady" -> "istio-csr"
          [] t = "ApproverPolicyReady" -> "approver-policy"
          [] t = "VenafiOauthHelperReady" -> "venafi-oauth-helper"
          [] t = "ManifestsReady" -> "manifests"]

ConditionTrue == "True"

\* the bytes of the friendly names, for Go's < on strings
Letters ==
    [n \in {componentNames[t] : t \in DOMAIN componentNames} |->
        CASE n = "cert-manager" -> <<"c","e","r","t","-","m","a","n","a","g","e","r">>
          [] n = "issuers" -> <<"i","s","s","u","e","r","s">>
          [] n = "csi-driver" -> <<"c","s","i","-","d","r","i","v","e","r">>
          [] n = "istio-csr" -> <<"i","s","t","i","o","-","c","s","r">>
          [] n = "approver-policy" -> <<"a","p","p","r","o","v","e","r","-","p","o","l","i","c","y">>
          [] n = "venafi-oauth-helper" ->
                <<"v","e","n","a","f","i","-","o","a","u","t","h","-","h","e","l","p","e","r">>
          [] n = "manifests" -> <<"m","a","n","i","f","e","s","t","s">>]

\* the bytes in ascending order: "-" is 0x2d, the letters 0x61 to 0x7a
ByteOrder == <<"-","a","b","c","d","e","f","g","h","i","j","k","l","m","n","o","p","q","r","s",
               "t","u","v","w","x","y","z">>

Byte(c) == CHOOSE i \in 1..Len(ByteOrder) : ByteOrder[i] = c

RECURSIVE BytesLess(_, _)
BytesLess(a, b) ==
    IF b = <<>> THEN FALSE
    ELSE IF a = <<>> THEN TRUE
    ELSE IF Byte(Head(a)) # Byte(Head(b)) THEN Byte(Head(a)) < Byte(Head(b))
    ELSE BytesLess(Tail(a), Tail(b))

\* statuses[i].Name < statuses[j].Name
NameLess(x, y) == BytesLess(Letters[x.Name], Letters[y.Name])

\* the conditions a cluster may report
Conditions ==
    [Type : DOMAIN componentNames \cup {"Unrecognised"},
     Status : {"True", "False", "Unknown"},
     Message : {"", "pending"}]

\* what the GET of the Installation may answer
Clusters ==
    {[err |-> "not found", conditions |-> <<>>], [err |-> "connection refused", conditions |-> <<>>]}
        \cup [err : {""}, conditions : SeqsUpTo(Conditions, MaxConditions)]

\* the message is copied whether or not the component is ready
RECURSIVE collectStatusesWithMessage(_)
collectStatusesWithMessage(conditions) ==
    IF conditions = <<>> THEN <<>>
    ELSE LET condition == Head(conditions)
         IN  IF condition.Type \notin DOMAIN componentNames
             THEN collectStatusesWithMessage(Tail(conditions))
             ELSE <<[Name |-> componentNames[condition.Type],
                     Ready |-> condition.Status = ConditionTrue,
                     Message |-> condition.Message]>>
                    \o collectStatusesWithMessage(Tail(conditions))

\* lines 541-561: one ComponentStatus per condition with a friendly name
RECURSIVE collectStatuses(_)
collectStatuses(conditions) ==
    IF conditions = <<>> THEN <<>>
    ELSE LET condition == Head(conditions)
             ready == condition.Status = ConditionTrue
             message == IF ~ready THEN condition.Message ELSE ""
         IN  IF condition.Type \notin DOMAIN componentNames
             THEN collectStatuses(Tail(conditions))
             ELSE <<[Name |-> componentNames[condition.Type], Ready |-> ready, Message |-> message]>>
                    \o collectStatuses(Tail(conditions))

\* the possible results of Status(): [err, value]
StatusResults(cl) ==
    IF cl.err = "not found" THEN {[err |-> ErrNoInstallation, value |-> <<>>]}
    ELSE IF cl.err # "" THEN {[err |-> <<cl.err>>, value |-> <<>>]}
    ELSE LET statuses == collectStatuses(cl.conditions)
         IN  {[err |-> NoError, value |-> sorted] :
                sorted \in SortOutcomes(statuses,
                    [i \in 1..Len(statuses) |-> [j \in 1..Len(statuses) |->
                        NameLess(statuses[i], statuses[j])]])}

Status ==
    /\ pc = "idle"
    /\ ret' \in StatusResults(cluster)
    /\ pc' = "returned"
    /\ call' = "Status"
    /\ options' = NoOptions
    /\ applied' = <<>>
    /\ UNCHANGED <<installers, cluster, mf, done, issuersFirst>>

InitStatus ==
    /\ installers = ReleasedInstallers
    /\ cluster \in Clusters
    /\ InitIdle

NextStatus ==
    \/ Status
    \/ Return

SpecStatus == InitStatus /\ [][NextStatus]_vars

----------------------------------------------------------------------------
(* Both appliers in one build *)

\* a released build, and one that also embeds the prerelease installer
ApplyInstallerSets ==
    {ReleasedInstallers,
     ReleasedInstallers \cup {e \in EmbeddableEntries : e.name.pre # ""}}

InitApply ==
    /\ installers \in ApplyInstallerSets
    /\ cluster = NoCluster
    /\ InitIdle

NextApply ==
    \/ ApplyOperatorYAML
    \/ ApplyInstallationYAML
    \/ Return

SpecApply == InitApply /\ [][NextApply]_vars

----------------------------------------------------------------------------
(* The builder's steps, one at a time and in any order *)

\* the options the step-wise builder is run with: the fields no step
\* branches on are fixed
StepwiseOptions ==
    {o \in InstallationOptions :
        /\ o.ImageRegistry = ""
        /\ o.CertManagerReplicas = 1
        /\ o.IstioCSRReplicas = 1
        /\ o.SpiffeCSIDriverReplicas = 1
        /\ o.Credentials \in {"", "/keys/key.json", "/keys/absent.json"}}

AllSteps == {BuildSteps[i] : i \in 1..Len(BuildSteps)}

\* one step of the builder, applied to the manifests built so far
ApplyStep ==
    /\ pc = "building"
    /\ \E step \in AllSteps \ done :
         LET r == RunStep(step, mf, options)
         IN  IF r.err # NoError
             THEN /\ pc' = "failed"
                  /\ ret' = [err |-> r.err, value |-> <<>>]
                  /\ UNCHANGED <<mf, done, issuersFirst>>
             ELSE /\ mf' = r.mf
                  /\ done' = done \cup {step}
                  /\ issuersFirst' = (issuersFirst \/ (step = "issuers" /\ "pull-secret" \notin done))
                  /\ UNCHANGED <<pc, ret>>
    /\ UNCHANGED <<installers, cluster, call, options, applied>>

\* lines 323-328, once every step has run
MarshalAndApply ==
    /\ pc = "building"
    /\ done = AllSteps
    /\ \E applyErr \in ApplierErrors :
         /\ applied' = <<marshalManifests(mf)>>
         /\ ret' = [err |-> applyErr, value |-> <<>>]
    /\ pc' = "built"
    /\ UNCHANGED <<installers, cluster, call, options, mf, done, issuersFirst>>

InitStepwise ==
    /\ installers = ReleasedInstallers
    /\ cluster = NoCluster
    /\ pc = "building"
    /\ call = "ApplyInstallationYAML"
    /\ options \in StepwiseOptions
    /\ ret = [err |-> NoError, value |-> <<>>]
    /\ applied = <<>>
    /\ mf = NewManifests(options)
    /\ done = {}
    /\ issuersFirst = FALSE

NextStepwise ==
    \/ ApplyStep
    \/ MarshalAndApply

SpecStepwise == InitStepwise /\ [][NextStepwise]_vars

----------------------------------------------------------------------------
(* Reading a state after a call *)

Returned(op) == pc = "returned" /\ call = op

\* a stream is YAML documents with a marker between each two
WellFormedStream(stream) ==
    /\ Len(stream) % 2 = 1
    /\ \A i \in 1..Len(stream) :
         IF i % 2 = 1 THEN stream[i].kind = "yaml" ELSE stream[i] = DocumentMarker

NumDocuments(stream) == (Len(stream) + 1) \div 2
Document(stream, k) == stream[2 * k - 1].doc

\* a credential file that cannot be opened or read
Unreadable(path) == KeyFiles[path].open # NoError \/ KeyFiles[path].read # NoError

IsUnclosed(content) == \E i \in 1..Len(content) : content[i].kind = "unclosed"

\* the inputs the installer renderer must fail on
OperatorInputFails ==
    \/ options.Version # EmptyString /\ ~\E e \in installers : e.name = options.Version
    \/ Unreadable(options.CredentialsLocation)
    \/ \E e \in installers : e.name = options.Version /\ IsUnclosed(e.content)

\* the inputs the manifest builder must fail on
InstallationInputFails ==
    \/ options.Credentials # "" /\ Unreadable(options.Credentials)
    \/ \E i \in 1..Len(options.VenafiIssuers) : ~options.VenafiIssuers[i].valid

----------------------------------------------------------------------------
(* C1: neither ApplyOperatorYAML nor ApplyInstallationYAML applies anything  *)
(* partially: Apply is invoked at most once per call, what the call returns  *)
(* is then Apply's answer, and on an input a construction step fails on      *)
(* (unknown version, unreadable credential file, a failing issuer expansion  *)
(* anywhere in the list, a template error) Apply is not invoked and the call *)
(* returns an error.                                                         *)
C1_NoPartialApplication ==
    /\ Len(applied) <= 1
    /\ applied # <<>> => ret.err \in ApplierErrors
    /\ Returned("ApplyOperatorYAML") /\ OperatorInputFails =>
            applied = <<>> /\ ret.err # NoError
    /\ Returned("ApplyInstallationYAML") /\ InstallationInputFails =>
            applied = <<>> /\ ret.err # NoError

\* a build whose second issuer fails to expand after the pull secret and the
\* first issuer were collected
C1_Witness ==
    /\ Returned("ApplyInstallationYAML")
    /\ options.Credentials = "/keys/key.json"
    /\ Len(options.VenafiIssuers) = 2
    /\ options.VenafiIssuers[1].valid
    /\ ~options.VenafiIssuers[2].valid
    /\ applied = <<>>
    /\ ret.err # NoError

----------------------------------------------------------------------------
(* C2: the Installation handed to the applier has a CSI-driver field iff    *)
(* InstallCSIDriver or InstallSpiffeCSIDriver is set; a present field is    *)
(* never empty; its cert-manager sub-field is present iff InstallCSIDriver, *)
(* its spiffe sub-field iff InstallSpiffeCSIDriver, and the spiffe          *)
(* sub-field carries SpiffeCSIDriverReplicas.                               *)
C2_CSIDriversPresence ==
    Returned("ApplyInstallationYAML") /\ applied # <<>> =>
        LET spec == Document(applied[1], 1).spec
        IN  /\ "CSIDrivers" \in DOMAIN spec <=>
                    (options.InstallCSIDriver \/ options.InstallSpiffeCSIDriver)
            /\ "CSIDrivers" \in DOMAIN spec =>
                /\ DOMAIN spec.CSIDrivers # {}
                /\ "CertManager" \in DOMAIN spec.CSIDrivers <=> options.InstallCSIDriver
                /\ "CertManagerSpiffe" \in DOMAIN spec.CSIDrivers <=> options.InstallSpiffeCSIDriver
                /\ options.InstallSpiffeCSIDriver =>
                        spec.CSIDrivers.CertManagerSpiffe.ReplicaCount = options.SpiffeCSIDriverReplicas

\* only the spiffe driver is asked for, with a replica count that differs
\* from the other two
C2_Witness ==
    /\ Returned("ApplyInstallationYAML")
    /\ applied # <<>>
    /\ ~options.InstallCSIDriver
    /\ options.InstallSpiffeCSIDriver
    /\ options.SpiffeCSIDriverReplicas = 3
    /\ options.IstioCSRReplicas = 1
    /\ options.CertManagerReplicas = 1
    /\ DOMAIN Document(applied[1], 1).spec.CSIDrivers = {"CertManagerSpiffe"}

----------------------------------------------------------------------------
(* C3: a successful Status() returns the recognised conditions, each as     *)
(* {friendly name, ready iff status is "True", the upstream message if not  *)
(* ready and none if ready}, ascending by friendly name; a condition of an  *)
(* unrecognised type is dropped and never makes the call fail.              *)
ExpectedStatus(condition) ==
    [Name |-> componentNames[condition.Type],
     Ready |-> condition.Status = "True",
     Message |-> IF condition.Status = "True" THEN "" ELSE condition.Message]

Recognised(conditions) ==
    {i \in 1..Len(conditions) : conditions[i].Type \in DOMAIN componentNames}

C3_StatusMapping ==
    Returned("Status") /\ cluster.err = "" =>
        /\ ret.err = NoError
        /\ Len(ret.value) = Cardinality(Recognised(cluster.conditions))
        /\ \E from \in [1..Len(ret.value) -> Recognised(cluster.conditions)] :
             /\ \A i, j \in 1..Len(ret.value) : from[i] = from[j] => i = j
             /\ \A i \in 1..Len(ret.value) :
                  ret.value[i] = ExpectedStatus(cluster.conditions[from[i]])
        /\ \A i, j \in 1..Len(ret.value) :
             i < j => ~BytesLess(Letters[ret.value[j].Name], Letters[ret.value[i].Name])
        /\ \A i \in 1..Len(ret.value) : ret.value[i].Ready => ret.value[i].Message = ""

\* a ready condition that carries a message upstream, listed after a
\* condition whose friendly name sorts behind it
C3_Witness ==
    /\ Returned("Status")
    /\ Len(cluster.conditions) = 2
    /\ cluster.conditions[1] = [Type |-> "IstioCSRReady", Status |-> "False", Message |-> "pending"]
    /\ cluster.conditions[2] = [Type |-> "CertManagerReady", Status |-> "True", Message |-> "pending"]
    /\ ret.value = <<[Name |-> "cert-manager", Ready |-> TRUE, Message |-> ""],
                     [Name |-> "istio-csr", Ready |-> FALSE, Message |-> "pending"]>>

\* an unrecognised condition type is dropped without an error
C3_WitnessDropped ==
    /\ Returned("Status")
    /\ \E i \in 1..Len(cluster.conditions) : cluster.conditions[i].Type = "Unrecognised"
    /\ ret.err = NoError

----------------------------------------------------------------------------
(* C4: asking the installer renderer for no version gives what asking for   *)
(* the highest version Versions() returns gives, the same rendered stream   *)
(* or the same error, and manifestVersion can open every version that       *)
(* Versions() returns.                                                      *)
RenderedInState ==
    IF applied = <<>> THEN [err |-> ret.err, output |-> <<>>]
    ELSE [err |-> NoError, output |-> applied[1]]

C4_EmptyVersionIsLatest ==
    Returned("ApplyOperatorYAML") /\ options.Version = EmptyString =>
        \A versions \in Versions(installers) :
            versions.err = NoError =>
                /\ OperatorYAML(installers, [options EXCEPT !.Version = Last(versions.value)])
                        = {RenderedInState}
                /\ \A i \in 1..Len(versions.value) :
                        manifestVersion(installers, versions.value[i]).err = NoError

----------------------------------------------------------------------------
(* C5: the stream ApplyInstallationYAML hands to the applier is the         *)
(* Installation document, then the image-pull secret iff a credential path  *)
(* is supplied, then one secret per issuer template in input order, each    *)
(* two documents separated by a marker; the Installation's issuer list has  *)
(* one fragment per issuer template in input order.                         *)
C5_StreamLayout ==
    Returned("ApplyInstallationYAML") /\ applied # <<>> =>
        LET stream == applied[1]
            n == Len(options.VenafiIssuers)
            c == IF options.Credentials # "" THEN 1 ELSE 0
        IN  /\ WellFormedStream(stream)
            /\ NumDocuments(stream) = 1 + c + n
            /\ Document(stream, 1).kind = "Installation"
            /\ c = 1 => /\ Document(stream, 2).kind = "Secret"
                        /\ Document(stream, 2).name = "jse-gcr-creds"
            /\ \A k \in 1..n :
                 /\ Document(stream, 1 + c + k).kind = "Secret"
                 /\ Document(stream, 1 + c + k).name = options.VenafiIssuers[k].secretName
            /\ Len(Document(stream, 1).spec.Issuers) = n
            /\ \A k \in 1..n :
                 Document(stream, 1).spec.Issuers[k].name = options.VenafiIssuers[k].name

\* a pull secret and two different issuers
C5_Witness ==
    /\ Returned("ApplyInstallationYAML")
    /\ applied # <<>>
    /\ options.Credentials = "/keys/key.json"
    /\ Len(options.VenafiIssuers) = 2
    /\ options.VenafiIssuers[1].name = "tlspk"
    /\ options.VenafiIssuers[2].name = "tpp"
    /\ NumDocuments(applied[1]) = 4
    /\ Document(applied[1], 3).name = "tlspk-credentials"

----------------------------------------------------------------------------
(* C6 as stated: the builder's steps applied to the skeleton in any order   *)
(* give the Installation and the document stream that the order of the code *)
(* gives.                                                                   *)
CodeOrderBuild == RunSteps(BuildSteps, NewManifests(options), options)

C6_AnyOrderSameStream ==
    pc = "built" =>
        /\ mf.installation = CodeOrderBuild.mf.installation
        /\ applied[1] = marshalManifests(CodeOrderBuild.mf)

\* the order in which the specification lists the steps
ListedSteps == <<"cert-manager-version", "csi-drivers", "istio-csr", "oauth-helper",
                 "pull-secret", "issuers">>

(* C6 amended: in any order the steps give the same Installation; the       *)
(* stream is the same in every order that collects the pull secret before   *)
(* it expands the issuers (the code's order and the listed order do), and   *)
(* in the other orders it is the same documents with the pull secret after  *)
(* the issuers' secrets instead of before them.                             *)
C6_AnyOrderSameInstallation ==
    /\ pc = "built" =>
        LET code == CodeOrderBuild.mf
            n == Len(code.secrets)
        IN  /\ CodeOrderBuild.err = NoError
            /\ mf.installation = code.installation
            /\ ~issuersFirst => applied[1] = marshalManifests(code)
            /\ issuersFirst /\ options.Credentials # "" =>
                    mf.secrets = SubSeq(code.secrets, 2, n) \o <<code.secrets[1]>>
            /\ issuersFirst /\ options.Credentials = "" => mf.secrets = code.secrets
    /\ pc = "building" /\ done = {} =>
        RunSteps(ListedSteps, mf, options) = RunSteps(BuildSteps, mf, options)

\* every optional part asked for, the issuers expanded before the pull
\* secret was collected
C6_Witness ==
    /\ pc = "built"
    /\ issuersFirst
    /\ options.Credentials = "/keys/key.json"
    /\ Len(options.VenafiIssuers) = 2
    /\ options.InstallCSIDriver /\ options.InstallIstioCSR /\ options.InstallVenafiOauthHelper
    /\ options.CertManagerVersion # ""
    /\ mf.secrets[3].name = "jse-gcr-creds"

----------------------------------------------------------------------------
(* C7: Versions() returns one string per embedded installer file, each "v"  *)
(* followed by the three numbers (and prerelease) of the parsed file name,  *)
(* ascending by semantic-version precedence with the numbers compared as    *)
(* numbers; if a file name is no semantic version it returns an error and   *)
(* no list.                                                                 *)
InstallerFiles == {e \in installers : ~e.isDir}

Rendered(name) ==
    Str(TRUE, [i \in 1..3 |-> IF i <= Len(name.nums) THEN name.nums[i] ELSE 0], name.pre)

Precedes(a, b) ==
    \/ \E i \in 1..3 : a.nums[i] < b.nums[i] /\ \A j \in 1..(i - 1) : a.nums[j] = b.nums[j]
    \/ a.nums = b.nums /\ a.pre # "" /\ b.pre = ""

C7_VersionsSorted ==
    Returned("Versions") =>
        IF \E e \in InstallerFiles : Len(e.name.nums) \notin 1..3
        THEN ret.err # NoError /\ ret.value = <<>>
        ELSE /\ ret.err = NoError
             /\ Len(ret.value) = Cardinality(InstallerFiles)
             /\ \E from \in [1..Len(ret.value) -> InstallerFiles] :
                  /\ \A i, j \in 1..Len(ret.value) : from[i] = from[j] => i = j
                  /\ \A i \in 1..Len(ret.value) : ret.value[i] = Rendered(from[i].name)
             /\ \A i, j \in 1..Len(ret.value) : i < j => ~Precedes(ret.value[j], ret.value[i])

\* 1.2.0 before 1.10.0
C7_Witness ==
    /\ Returned("Versions")
    /\ ret.value = <<Str(TRUE, <<1, 2, 0>>, ""), Str(TRUE, <<1, 10, 0>>, "")>>

----------------------------------------------------------------------------
(* C8: the Installation handed to the applier has an istio-csr field iff    *)
(* InstallIstioCSR is set; the field carries IstioCSRReplicas, and an       *)
(* issuer reference iff IstioCSRIssuer is not empty, with that name, kind   *)
(* Issuer and group cert-manager.io.                                        *)
C8_IstioCSR ==
    Returned("ApplyInstallationYAML") /\ applied # <<>> =>
        LET spec == Document(applied[1], 1).spec
        IN  /\ "IstioCSR" \in DOMAIN spec <=> options.InstallIstioCSR
            /\ "IstioCSR" \in DOMAIN spec =>
                /\ spec.IstioCSR.ReplicaCount = options.IstioCSRReplicas
                /\ "IssuerRef" \in DOMAIN spec.IstioCSR <=> options.IstioCSRIssuer # ""
                /\ "IssuerRef" \in DOMAIN spec.IstioCSR =>
                        spec.IstioCSR.IssuerRef =
                            [Name |-> options.IstioCSRIssuer, Kind |-> "Issuer",
                             Group |-> "cert-manager.io"]

\* istio-csr without an issuer, with a replica count of its own
C8_Witness ==
    /\ Returned("ApplyInstallationYAML")
    /\ applied # <<>>
    /\ options.InstallIstioCSR
    /\ options.IstioCSRIssuer = ""
    /\ options.IstioCSRReplicas = 3
    /\ options.CertManagerReplicas = 1
    /\ options.SpiffeCSIDriverReplicas = 1
    /\ DOMAIN Document(applied[1], 1).spec.IstioCSR = {"ReplicaCount"}

\* istio-csr not asked for although an issuer is named
C8_WitnessNotInstalled ==
    /\ Returned("ApplyInstallationYAML")
    /\ applied # <<>>
    /\ ~options.InstallIstioCSR
    /\ options.IstioCSRIssuer # ""

----------------------------------------------------------------------------
(* C9 as stated: whatever conditions the cluster reports, no two entries of *)
(* the result of Status() carry the same friendly name, and the result is   *)
(* the only one the conditions allow.                                       *)
DistinctNames(statuses) ==
    \A i, j \in 1..Len(statuses) : statuses[i].Name = statuses[j].Name => i = j

C9_OneEntryPerType ==
    Returned("Status") /\ ret.err = NoError =>
        /\ DistinctNames(ret.value)
        /\ StatusResults(cluster) = {ret}

(* C9 amended: the result has one entry per recognised condition; when no   *)
(* recognised condition type occurs twice among the conditions the cluster  *)
(* reports, no two entries carry the same friendly name and the result is   *)
(* the only one the conditions allow.                                       *)
C9_OneEntryPerCondition ==
    Returned("Status") /\ ret.err = NoError =>
        /\ Len(ret.value) = Cardinality(Recognised(cluster.conditions))
        /\ (\A i, j \in Recognised(cluster.conditions) :
                cluster.conditions[i].Type = cluster.conditions[j].Type => i = j)
            => /\ DistinctNames(ret.value)
               /\ StatusResults(cluster) = {ret}

\* two recognised conditions of different types
C9_Witness ==
    /\ Returned("Status")
    /\ ret.err = NoError
    /\ Len(cluster.conditions) = 2
    /\ cluster.conditions[1].Type = "CertManagerIssuersReady"
    /\ cluster.conditions[2].Type = "CertManagerReady"
    /\ Len(ret.value) = 2

----------------------------------------------------------------------------
(* C10: in the Installation handed to the applier the OAuth-helper field is *)
(* present iff InstallVenafiOauthHelper is set; its pull-secret references  *)
(* are exactly "jse-gcr-creds" when a credential path is supplied and none  *)
(* otherwise; the stream holds a Secret named "jse-gcr-creds" whenever a    *)
(* credential path is supplied, so whenever the Installation refers to it.  *)
HasPullSecret(stream) ==
    \E k \in 2..NumDocuments(stream) :
        Document(stream, k).kind = "Secret" /\ Document(stream, k).name = "jse-gcr-creds"

C10_PullSecretReference ==
    Returned("ApplyInstallationYAML") /\ applied # <<>> =>
        LET spec == Document(applied[1], 1).spec
        IN  /\ "VenafiOauthHelper" \in DOMAIN spec <=> options.InstallVenafiOauthHelper
            /\ "VenafiOauthHelper" \in DOMAIN spec =>
                /\ spec.VenafiOauthHelper.ImagePullSecrets =
                        IF options.Credentials # "" THEN <<"jse-gcr-creds">> ELSE <<>>
                /\ spec.VenafiOauthHelper.ImagePullSecrets # <<>> => HasPullSecret(applied[1])
            /\ options.Credentials # "" => HasPullSecret(applied[1])

\* the helper installed with credentials
C10_Witness ==
    /\ Returned("ApplyInstallationYAML")
    /\ applied # <<>>
    /\ options.InstallVenafiOauthHelper
    /\ options.Credentials = "/keys/key.json"
    /\ Document(applied[1], 1).spec.VenafiOauthHelper.ImagePullSecrets = <<"jse-gcr-creds">>
    /\ Document(applied[1], 2).name = "jse-gcr-creds"

====
